---- MODULE Spec2Model ----
(***************************************************************************)
(* YTDB: a red-black tree keyed by byte sequences (RedBlackTree) behind a  *)
(* std::shared_mutex (ConcurrentRedBlackTree).  Nodes live in an arena:    *)
(* a node's address is its index in tree.nodes, NIL (0) is nullptr, and    *)
(* `new Node` appends a cell.                                              *)
(***************************************************************************)
EXTENDS Integers, Sequences, FiniteSets, TLC

\* ------------------------------------------------------------- bounds
\* Cap on the number of nodes the sequential specification allocates.
MaxNodes == 4
\* Calls each thread of the concurrent specification issues at most.
MaxCalls == 2
\* test_concurrent_writes, scaled down: its threads (num_threads is 8) and
\* the puts each makes (ops_per_thread is 1000).
NumThreads == 2
OpsPerThread == 2
\* test_concurrent_reads, scaled down: the keys put before the readers start
\* (num_keys is 1000), the reader threads (num_reader_threads is 16) and
\* the gets each makes (reads_per_thread is 10000).
NumKeys == 5
NumReaders == 2
ReadsPerThread == 2
\* Longest key handed to compare_keys on its own.
MaxKeyLen == 2

\* ------------------------------------------------------------- inputs
\* uint8_t keys of the sequential specification: the empty key, prefixes,
\* and bytes above 127.
Keys == { <<>>, <<0>>, <<0, 255>>, <<1>>, <<255>> }
Values == { <<1>>, <<2>> }
\* Keys and the one value of the specification that grows the tree to eight
\* nodes (SpecDeep).
DeepKeys == Keys \cup { <<0, 0>>, <<1, 0>>, <<128>> }
DeepValue == <<1>>
\* Keys the threads of SpecConc put and get.
ConcKeys == { <<0>>, <<1>>, <<255>> }
\* The threads of SpecConc, and those of test_concurrent_writes.
Threads == {0, 1}
Writers == 0 .. (NumThreads - 1)
\* uint8_t values, the least, the greatest and the least above 127, and the
\* byte sequences of up to MaxKeyLen of them.
Bytes == {0, 128, 255}
CmpKeys == UNION { [1 .. n -> Bytes] : n \in 0 .. MaxKeyLen }
\* The reader threads of test_concurrent_reads.
Readers == 0 .. (NumReaders - 1)

NIL == 0

VARIABLES
    tree,      \* the RedBlackTree: root and the arena of nodes
    last,      \* sequential specifications: the last call and its outcome
    everPut,   \* keys some put has been called with
    lock,      \* the std::shared_mutex: who holds it exclusively, who shared
    pc,        \* where each thread is
    frame,     \* each thread's current call: arguments and locals
    calls,     \* calls each thread has issued
    order,     \* the puts (key, value, thread) in the order they took the lock
    verified   \* test_concurrent_writes: keys verified after the join, -1 once the assert fails

vars == <<tree, last, everPut, lock, pc, frame, calls, order, verified>>
conc == <<lock, pc, frame, calls, order, verified>>

\* ------------------------------------------------------------- Node
Node(k, v) ==
    [key |-> k, value |-> v, left |-> NIL, right |-> NIL, parent |-> NIL,
     is_red |-> TRUE]

EmptyTree == [root |-> NIL, nodes |-> << >>]

\* ------------------------------------------------------------- compare_keys
\* compare_keys reading its bytes as signed char.
compare_keys_signed(a, b) ==
    LET min_len == IF Len(a) < Len(b) THEN Len(a) ELSE Len(b)
        signed(x) == IF x >= 128 THEN x - 256 ELSE x
        RECURSIVE loop(_)
        loop(i) ==
            IF i > min_len
            THEN IF Len(a) < Len(b) THEN -1
                 ELSE IF Len(a) > Len(b) THEN 1
                 ELSE 0
            ELSE IF signed(a[i]) < signed(b[i]) THEN -1
                 ELSE IF signed(a[i]) > signed(b[i]) THEN 1
                 ELSE loop(i + 1)
    IN loop(1)

\* compare_keys looking at the first byte only.
compare_keys_first_byte(a, b) ==
    IF Len(a) = 0 \/ Len(b) = 0
    THEN IF Len(a) < Len(b) THEN -1 ELSE IF Len(a) > Len(b) THEN 1 ELSE 0
    ELSE IF a[1] < b[1] THEN -1 ELSE IF a[1] > b[1] THEN 1 ELSE 0

compare_keys(a, b) ==
    LET min_len == IF Len(a) < Len(b) THEN Len(a) ELSE Len(b)
        RECURSIVE loop(_)
        loop(i) ==
            IF i > min_len
            THEN IF Len(a) < Len(b) THEN -1
                 ELSE IF Len(a) > Len(b) THEN 1
                 ELSE 0
            ELSE IF a[i] < b[i] THEN -1
                 ELSE IF a[i] > b[i] THEN 1
                 ELSE loop(i + 1)
    IN loop(1)

\* ------------------------------------------------------------- find_node
\* find_node descending to the wrong side.
RECURSIVE find_node_mirrored(_, _, _)
find_node_mirrored(t, node, key) ==
    IF node = NIL THEN NIL
    ELSE LET cmp == compare_keys(key, t.nodes[node].key)
         IN IF cmp = 0 THEN node
            ELSE IF cmp < 0 THEN find_node_mirrored(t, t.nodes[node].right, key)
            ELSE find_node_mirrored(t, t.nodes[node].left, key)

\* find_node returning the last node visited where it should return nullptr.
RECURSIVE find_node_closest(_, _, _)
find_node_closest(t, node, key) ==
    IF node = NIL THEN NIL
    ELSE LET cmp == compare_keys(key, t.nodes[node].key)
             next == IF cmp < 0 THEN t.nodes[node].left ELSE t.nodes[node].right
         IN IF cmp = 0 \/ next = NIL THEN node
            ELSE find_node_closest(t, next, key)

RECURSIVE find_node(_, _, _)
find_node(t, node, key) ==
    IF node = NIL THEN NIL
    ELSE LET cmp == compare_keys(key, t.nodes[node].key)
         IN IF cmp = 0 THEN node
            ELSE IF cmp < 0 THEN find_node(t, t.nodes[node].left, key)
            ELSE find_node(t, t.nodes[node].right, key)

\* ------------------------------------------------------------- rotations
\* rotate_left up to the point where right_child has taken node's parent.
rotate_left_first(t, node) ==
    LET right_child == t.nodes[node].right
        moved == t.nodes[right_child].left
        t1 == [t EXCEPT !.nodes[node].right = moved]
        t2 == IF moved # NIL THEN [t1 EXCEPT !.nodes[moved].parent = node] ELSE t1
    IN [t2 EXCEPT !.nodes[right_child].parent = t.nodes[node].parent]

\* rotate_left_second testing the wrong child slot of the parent.
rotate_left_second_wrong_slot(t, node, right_child) ==
    LET p == t.nodes[node].parent
        t1 == IF p = NIL THEN [t EXCEPT !.root = right_child]
              ELSE IF node = t.nodes[p].right
                   THEN [t EXCEPT !.nodes[p].left = right_child]
                   ELSE [t EXCEPT !.nodes[p].right = right_child]
        t2 == [t1 EXCEPT !.nodes[right_child].left = node]
    IN [t2 EXCEPT !.nodes[node].parent = right_child]

\* the rest of rotate_left: the parent's (or root's) link, then node goes
\* under right_child.
rotate_left_second(t, node, right_child) ==
    LET p == t.nodes[node].parent
        t1 == IF p = NIL THEN [t EXCEPT !.root = right_child]
              ELSE IF node = t.nodes[p].left
                   THEN [t EXCEPT !.nodes[p].left = right_child]
                   ELSE [t EXCEPT !.nodes[p].right = right_child]
        t2 == [t1 EXCEPT !.nodes[right_child].left = node]
    IN [t2 EXCEPT !.nodes[node].parent = right_child]

rotate_left(t, node) ==
    rotate_left_second(rotate_left_first(t, node), node, t.nodes[node].right)

\* rotate_right_first leaving the moved subtree's parent field as it was.
rotate_right_first_keeps_moved_parent(t, node) ==
    LET left_child == t.nodes[node].left
        moved == t.nodes[left_child].right
        t1 == [t EXCEPT !.nodes[node].left = moved]
    IN [t1 EXCEPT !.nodes[left_child].parent = t.nodes[node].parent]

rotate_right_first(t, node) ==
    LET left_child == t.nodes[node].left
        moved == t.nodes[left_child].right
        t1 == [t EXCEPT !.nodes[node].left = moved]
        t2 == IF moved # NIL THEN [t1 EXCEPT !.nodes[moved].parent = node] ELSE t1
    IN [t2 EXCEPT !.nodes[left_child].parent = t.nodes[node].parent]

rotate_right_second(t, node, left_child) ==
    LET p == t.nodes[node].parent
        t1 == IF p = NIL THEN [t EXCEPT !.root = left_child]
              ELSE IF node = t.nodes[p].right
                   THEN [t EXCEPT !.nodes[p].right = left_child]
                   ELSE [t EXCEPT !.nodes[p].left = left_child]
        t2 == [t1 EXCEPT !.nodes[left_child].right = node]
    IN [t2 EXCEPT !.nodes[node].parent = left_child]

rotate_right(t, node) ==
    rotate_right_second(rotate_right_first(t, node), node, t.nodes[node].left)

\* ------------------------------------------------------------- fix_insert
\* Which branch one pass of fix_insert's loop takes at `node`.
fix_case(t, node) ==
    LET p == t.nodes[node].parent
    IN IF p = NIL \/ ~t.nodes[p].is_red THEN "exit"
       ELSE LET g == t.nodes[p].parent
            IN IF p = t.nodes[g].left
               THEN LET uncle == t.nodes[g].right
                    IN IF uncle # NIL /\ t.nodes[uncle].is_red THEN "left_red"
                       ELSE IF node = t.nodes[p].right THEN "left_inner"
                       ELSE "left_outer"
               ELSE LET uncle == t.nodes[g].left
                    IN IF uncle # NIL /\ t.nodes[uncle].is_red THEN "right_red"
                       ELSE IF node = t.nodes[p].left THEN "right_inner"
                       ELSE "right_outer"

\* parent and uncle BLACK, grandparent RED.
recolour_uncle(t, node, uncle) ==
    LET p == t.nodes[node].parent
        g == t.nodes[p].parent
    IN [t EXCEPT !.nodes[p].is_red = FALSE,
                 !.nodes[uncle].is_red = FALSE,
                 !.nodes[g].is_red = TRUE]

\* recolour_outer leaving the grandparent as it is.
recolour_outer_parent_only(t, node) ==
    LET p == t.nodes[node].parent
    IN [t EXCEPT !.nodes[p].is_red = FALSE]

\* recolour_outer leaving the parent RED.
recolour_outer_grandparent_only(t, node) ==
    LET p == t.nodes[node].parent
        g == t.nodes[p].parent
    IN [t EXCEPT !.nodes[g].is_red = TRUE]

\* parent BLACK, grandparent RED, ahead of the grandparent's rotation.
recolour_outer(t, node) ==
    LET p == t.nodes[node].parent
        g == t.nodes[p].parent
    IN [t EXCEPT !.nodes[p].is_red = FALSE, !.nodes[g].is_red = TRUE]

\* fix_insert returning without forcing the root BLACK.
blacken_root_never(t) == t

blacken_root(t) == [t EXCEPT !.nodes[t.root].is_red = FALSE]

Grandparent(t, node) == t.nodes[t.nodes[node].parent].parent

\* One pass of the loop's body, taken in case c (not "exit"): the tree
\* after it and the node the next test is made on.
fix_pass(t, node, c) ==
    LET p == t.nodes[node].parent
    IN CASE c = "left_red" ->
              LET g == Grandparent(t, node)
              IN [t |-> recolour_uncle(t, node, t.nodes[g].right), node |-> g]
         [] c = "right_red" ->
              LET g == Grandparent(t, node)
              IN [t |-> recolour_uncle(t, node, t.nodes[g].left), node |-> g]
         [] c = "left_inner" ->
              LET t1 == recolour_outer(rotate_left(t, p), p)
              IN [t |-> rotate_right(t1, Grandparent(t1, p)), node |-> p]
         [] c = "left_outer" ->
              LET t1 == recolour_outer(t, node)
              IN [t |-> rotate_right(t1, Grandparent(t1, node)), node |-> node]
         [] c = "right_inner" ->
              LET t1 == recolour_outer(rotate_right(t, p), p)
              IN [t |-> rotate_left(t1, Grandparent(t1, p)), node |-> p]
         [] c = "right_outer" ->
              LET t1 == recolour_outer(t, node)
              IN [t |-> rotate_left(t1, Grandparent(t1, node)), node |-> node]

RECURSIVE fix_insert(_, _)
fix_insert(t, node) ==
    LET c == fix_case(t, node)
    IN IF c = "exit" THEN blacken_root(t)
       ELSE LET r == fix_pass(t, node, c)
            IN fix_insert(r.t, r.node)

\* The cases fix_insert's loop goes through from `node`, in order.
RECURSIVE fix_cases(_, _)
fix_cases(t, node) ==
    LET c == fix_case(t, node)
    IN IF c = "exit" THEN << >>
       ELSE LET r == fix_pass(t, node, c)
            IN <<c>> \o fix_cases(r.t, r.node)

\* The rotations fix_insert calls in a pass of case c.
rotations_in(c) ==
    CASE c \in {"left_red", "right_red"} -> 0
      [] c \in {"left_outer", "right_outer"} -> 1
      [] c \in {"left_inner", "right_inner"} -> 2

\* Root and links of a tree, colours, keys and values left out.
Links(t) ==
    [root |-> t.root,
     of |-> [x \in 1 .. Len(t.nodes) |->
               <<t.nodes[x].left, t.nodes[x].right, t.nodes[x].parent>>]]

\* Every child's parent field names the node it hangs under.
ChildrenPointBack(t) ==
    \A x \in 1 .. Len(t.nodes) :
       /\ t.nodes[x].left # NIL => t.nodes[t.nodes[x].left].parent = x
       /\ t.nodes[x].right # NIL => t.nodes[t.nodes[x].right].parent = x

\* The outer step made from node n goes through nullptr: n's parent or
\* grandparent is absent, or the grandparent lacks the child its rotation
\* lifts (the left one in the branch of line 99, the right one in the other).
outer_null(t, n, branch) ==
    LET p == t.nodes[n].parent
    IN \/ p = NIL
       \/ t.nodes[p].parent = NIL
       \/ branch = "left" /\ t.nodes[t.nodes[p].parent].left = NIL
       \/ branch = "right" /\ t.nodes[t.nodes[p].parent].right = NIL

\* A pass of case c at `node` goes through nullptr in one of its rotations.
pass_null(t, node, c) ==
    LET p == t.nodes[node].parent
    IN CASE c \in {"left_red", "right_red"} -> FALSE
         [] c = "left_inner" ->
              t.nodes[p].right = NIL \/ outer_null(rotate_left(t, p), p, "left")
         [] c = "left_outer" -> outer_null(t, node, "left")
         [] c = "right_inner" ->
              t.nodes[p].left = NIL \/ outer_null(rotate_right(t, p), p, "right")
         [] c = "right_outer" -> outer_null(t, node, "right")

\* The links after the pass of case c at `node` are consistent, and after
\* the first of its two rotations when it makes two.
pass_linked(t, node, c) ==
    LET p == t.nodes[node].parent
    IN /\ ChildrenPointBack(fix_pass(t, node, c).t)
       /\ c = "left_inner" => ChildrenPointBack(rotate_left(t, p))
       /\ c = "right_inner" => ChildrenPointBack(rotate_right(t, p))

\* fix_insert from `node`, pass by pass, for `fuel` passes at most: for each
\* pass its case, whether it changed a link and whether it left the links
\* consistent, and at the end how the call ended: "returned"; "null_deref"
\* when the grandparent of line 99, a rotation's child or the root of line
\* 133 is nullptr; "unfinished" when the loop is still running after `fuel`
\* passes.
RECURSIVE fix_run(_, _, _)
fix_run(t, node, fuel) ==
    LET p == t.nodes[node].parent
    IN IF p = NIL \/ ~t.nodes[p].is_red
       THEN <<[end |-> IF t.root = NIL THEN "null_deref" ELSE "returned"]>>
       ELSE IF t.nodes[p].parent = NIL THEN <<[end |-> "null_deref"]>>
       ELSE IF fuel = 0 THEN <<[end |-> "unfinished"]>>
       ELSE LET c == fix_case(t, node)
            IN IF pass_null(t, node, c) THEN <<[end |-> "null_deref"]>>
               ELSE LET r == fix_pass(t, node, c)
                    IN <<[case |-> c,
                          relinked |-> Links(r.t) # Links(t),
                          linked |-> pass_linked(t, node, c)]>>
                       \o fix_run(r.t, r.node, fuel - 1)

\* ------------------------------------------------------------- put
\* put's descent: the node holding an EQUAL key, or the last node visited.
RECURSIVE descend(_, _, _)
descend(t, current, key) ==
    LET cmp == compare_keys(key, t.nodes[current].key)
        next == IF cmp < 0 THEN t.nodes[current].left ELSE t.nodes[current].right
    IN IF cmp = 0 THEN [found |-> TRUE, at |-> current]
       ELSE IF next = NIL THEN [found |-> FALSE, at |-> current]
       ELSE descend(t, next, key)

\* put_descend returning on an EQUAL key without storing the value.
put_descend_keeps_value(t, key, value) ==
    IF t.root = NIL
    THEN [t |-> [root |-> Len(t.nodes) + 1,
                 nodes |-> Append(t.nodes, [Node(key, value) EXCEPT !.is_red = FALSE])],
          parent |-> NIL, done |-> TRUE]
    ELSE LET d == descend(t, t.root, key)
         IN [t |-> t, parent |-> d.at, done |-> d.found]

\* put_descend storing the value in the last node visited whether or not
\* its key is EQUAL.
put_descend_stores_early(t, key, value) ==
    IF t.root = NIL
    THEN [t |-> [root |-> Len(t.nodes) + 1,
                 nodes |-> Append(t.nodes, [Node(key, value) EXCEPT !.is_red = FALSE])],
          parent |-> NIL, done |-> TRUE]
    ELSE LET d == descend(t, t.root, key)
         IN [t |-> [t EXCEPT !.nodes[d.at].value = value],
             parent |-> d.at, done |-> d.found]

\* put_descend replacing the node of an EQUAL key by a newly constructed
\* one in the same place.
put_descend_rebuilds_node(t, key, value) ==
    IF t.root = NIL
    THEN [t |-> [root |-> Len(t.nodes) + 1,
                 nodes |-> Append(t.nodes, [Node(key, value) EXCEPT !.is_red = FALSE])],
          parent |-> NIL, done |-> TRUE]
    ELSE LET d == descend(t, t.root, key)
         IN IF d.found
            THEN [t |-> [t EXCEPT !.nodes[d.at] =
                           [Node(key, value) EXCEPT !.left = t.nodes[d.at].left,
                                                    !.right = t.nodes[d.at].right,
                                                    !.parent = t.nodes[d.at].parent]],
                  parent |-> d.at, done |-> TRUE]
            ELSE [t |-> t, parent |-> d.at, done |-> FALSE]

\* put down to the end of its descent: the empty tree gets its BLACK root
\* and an EQUAL key its new value (done: put returns), otherwise `parent`
\* is the node the new one goes under.
put_descend(t, key, value) ==
    IF t.root = NIL
    THEN [t |-> [root |-> Len(t.nodes) + 1,
                 nodes |-> Append(t.nodes, [Node(key, value) EXCEPT !.is_red = FALSE])],
          parent |-> NIL, done |-> TRUE]
    ELSE LET d == descend(t, t.root, key)
         IN IF d.found
            THEN [t |-> [t EXCEPT !.nodes[d.at].value = value],
                  parent |-> d.at, done |-> TRUE]
            ELSE [t |-> t, parent |-> d.at, done |-> FALSE]

\* put_link hanging the new node on the parent's left whatever the comparison.
put_link_always_left(t, parent, key, value) ==
    LET new_node == Len(t.nodes) + 1
        t1 == [t EXCEPT !.nodes =
                 Append(t.nodes, [Node(key, value) EXCEPT !.parent = parent])]
        t2 == IF parent # NIL
              THEN [t1 EXCEPT !.nodes[parent].left = new_node]
              ELSE t1
    IN [t |-> t2, fix |-> new_node]

\* put from `new Node` to the call of fix_insert: the RED node linked under
\* `parent`.  `fix` is the node fix_insert is called on.
put_link(t, parent, key, value) ==
    LET new_node == Len(t.nodes) + 1
        t1 == [t EXCEPT !.nodes =
                 Append(t.nodes, [Node(key, value) EXCEPT !.parent = parent])]
        t2 == IF parent # NIL
              THEN IF compare_keys(key, t.nodes[parent].key) < 0
                   THEN [t1 EXCEPT !.nodes[parent].left = new_node]
                   ELSE [t1 EXCEPT !.nodes[parent].right = new_node]
              ELSE t1
    IN [t |-> t2, fix |-> new_node]

put(t, key, value) ==
    LET d == put_descend(t, key, value)
    IN IF d.done THEN d.t
       ELSE LET l == put_link(d.t, d.parent, key, value)
            IN fix_insert(l.t, l.fix)

\* The loop cases put(key, value) goes through in fix_insert (none when it
\* returns without calling it).
put_cases(t, key, value) ==
    LET d == put_descend(t, key, value)
    IN IF d.done THEN << >>
       ELSE LET l == put_link(d.t, d.parent, key, value)
            IN fix_cases(l.t, l.fix)

\* What put(key, value) does in fix_insert and how it ends, the loop given
\* one pass for each node of the tree.
put_run(t, key, value) ==
    LET d == put_descend(t, key, value)
    IN IF d.done THEN <<[end |-> "returned"]>>
       ELSE LET l == put_link(d.t, d.parent, key, value)
            IN fix_run(l.t, l.fix, Len(l.t.nodes))

\* How the call of a run ended.
Outcome(run) == run[Len(run)].end

\* ------------------------------------------------------------- get
get(t, key) ==
    LET node == find_node(t, t.root, key)
    IN IF node # NIL THEN [found |-> TRUE, value |-> t.nodes[node].value]
       ELSE [found |-> FALSE, value |-> << >>]

\* ------------------------------------------------------------- compare_keys on its own
\* Three byte sequences a, b and c are chosen, no tree involved.
InitCompare ==
    /\ last \in [op : {"args"}, a : CmpKeys, b : CmpKeys, c : CmpKeys]
    /\ tree = [root |-> NIL, nodes |-> << >>]
    /\ everPut = {}
    /\ lock = [exclusive |-> {}, shared |-> {}]
    /\ pc = [t \in Threads |-> "idle"]
    /\ frame = [t \in Threads |-> [op |-> "none"]]
    /\ calls = [t \in Threads |-> 0]
    /\ order = << >>
    /\ verified = 0

\* compare_keys called on each pair of them, both ways round.
CompareKeys ==
    /\ last.op = "args"
    /\ last' = [op |-> "compare_keys", a |-> last.a, b |-> last.b, c |-> last.c,
                ab |-> compare_keys(last.a, last.b),
                ba |-> compare_keys(last.b, last.a),
                bc |-> compare_keys(last.b, last.c),
                cb |-> compare_keys(last.c, last.b),
                ac |-> compare_keys(last.a, last.c),
                ca |-> compare_keys(last.c, last.a)]
    /\ UNCHANGED <<tree, everPut, lock, pc, frame, calls, order, verified>>

SpecCompare == InitCompare /\ [][CompareKeys]_vars

\* ------------------------------------------------------------- sequential tree
NoCall == [op |-> "none"]
NoFrame == [op |-> "none"]

\* A tree just constructed, the mutex free, the threads in T not started.
InitWith(T) ==
    /\ tree = EmptyTree
    /\ last = NoCall
    /\ everPut = {}
    /\ lock = [exclusive |-> {}, shared |-> {}]
    /\ pc = [t \in T |-> "idle"]
    /\ frame = [t \in T |-> NoFrame]
    /\ calls = [t \in T |-> 0]
    /\ order = << >>
    /\ verified = 0

Init == InitWith(Threads)

\* RedBlackTree::put(key, value); `last` keeps the call and what get(key)
\* and the node count were just before it.  New keys are put while fewer
\* than MaxNodes keys have been.
Put(k, v) ==
    /\ Cardinality(everPut) < MaxNodes \/ k \in everPut
    /\ tree' = put(tree, k, v)
    /\ last' = [op |-> "put", key |-> k, value |-> v,
                before |-> get(tree, k), count |-> Len(tree.nodes),
                was_put |-> k \in everPut]
    /\ everPut' = everPut \cup {k}
    /\ UNCHANGED conc

\* RedBlackTree::get(key, out_value).
Get(k) ==
    /\ last' = [op |-> "get", key |-> k, result |-> get(tree, k),
                was_put |-> k \in everPut]
    /\ UNCHANGED <<tree, everPut>>
    /\ UNCHANGED conc

Next ==
    \/ \E k \in Keys, v \in Values : Put(k, v)
    \/ \E k \in Keys : Get(k)

Spec == Init /\ [][Next]_vars

\* The same put on a larger key set with one value, so that the tree grows
\* to Cardinality(DeepKeys) nodes; `last` keeps how the call ended and what
\* its fix_insert did.  A call that goes through nullptr or never leaves the
\* loop does not return: the program makes no further call.
DeepPut(k) ==
    /\ last.op = "put" => Outcome(last.run) = "returned"
    /\ last' = [op |-> "put", run |-> put_run(tree, k, DeepValue)]
    /\ IF Outcome(last'.run) = "returned"
       THEN /\ tree' = put(tree, k, DeepValue)
            /\ everPut' = everPut \cup {k}
       ELSE UNCHANGED <<tree, everPut>>
    /\ UNCHANGED conc

NextDeep == \E k \in DeepKeys : DeepPut(k)

SpecDeep == Init /\ [][NextDeep]_vars

\* ------------------------------------------------------------- ~RedBlackTree
\* The call stack of delete_tree is a sequence of frames, the running call
\* last: the node of the call and where the call is ("enter" at line 137,
\* "left" once delete_tree(node->left) has returned, "right" once
\* delete_tree(node->right) has).  `deleted` lists the nodes in the order
\* of their delete, `stale` tells whether a deleted node's field was read.
Frame(node, at) == [node |-> node, at |-> at]

Pop(stack) == SubSeq(stack, 1, Len(stack) - 1)

\* The running call moved to `at`, and delete_tree(child) called from it.
CallFrom(stack, at, child) ==
    Append([stack EXCEPT ![Len(stack)].at = at], Frame(child, "enter"))

\* delete_tree deleting the node before its subtrees.
delete_tree_step_node_first(t, d) ==
    LET f == d.stack[Len(d.stack)]
        node == f.node
        now == IF f.at = "enter" /\ node # NIL THEN Append(d.deleted, node)
               ELSE d.deleted
        gone == \E i \in 1 .. Len(now) : now[i] = node
    IN [op |-> "delete_tree", steps |-> d.steps + 1, deleted |-> now,
        stale |-> d.stale \/ (node # NIL /\ f.at \in {"enter", "left"} /\ gone),
        stack |-> IF f.at = "enter" /\ node # NIL
                  THEN CallFrom(d.stack, "left", t.nodes[node].left)
                  ELSE IF f.at = "left"
                  THEN CallFrom(d.stack, "right", t.nodes[node].right)
                  ELSE Pop(d.stack)]

\* The next step of the running call of delete_tree: it returns on nullptr
\* (line 137), calls itself on node->left (139), then on node->right (140),
\* then deletes the node and returns (141).
delete_tree_step(t, d) ==
    LET f == d.stack[Len(d.stack)]
        node == f.node
        gone == \E i \in 1 .. Len(d.deleted) : d.deleted[i] = node
    IN [op |-> "delete_tree", steps |-> d.steps + 1,
        deleted |-> IF f.at = "right" THEN Append(d.deleted, node) ELSE d.deleted,
        stale |-> d.stale \/ (node # NIL /\ f.at \in {"enter", "left"} /\ gone),
        stack |-> IF f.at = "enter" /\ node # NIL
                  THEN CallFrom(d.stack, "left", t.nodes[node].left)
                  ELSE IF f.at = "left"
                  THEN CallFrom(d.stack, "right", t.nodes[node].right)
                  ELSE Pop(d.stack)]

\* The tree is being destroyed or has been.
Destroyed == last.op = "delete_tree"

\* The destructor runs: delete_tree(root) is called.
Destroy ==
    /\ ~Destroyed
    /\ last' = [op |-> "delete_tree", steps |-> 0, deleted |-> << >>,
                stale |-> FALSE, stack |-> <<Frame(tree.root, "enter")>>]
    /\ UNCHANGED <<tree, everPut>>
    /\ UNCHANGED conc

DeleteStep ==
    /\ Destroyed
    /\ last.stack # << >>
    /\ last' = delete_tree_step(tree, last)
    /\ UNCHANGED <<tree, everPut>>
    /\ UNCHANGED conc

\* A tree is built by puts and then destroyed.
NextTeardown ==
    \/ \E k \in Keys : ~Destroyed /\ Put(k, DeepValue)
    \/ Destroy
    \/ DeleteStep

SpecTeardown == Init /\ [][NextTeardown]_vars

\* ------------------------------------------------------------- std::shared_mutex
\* An exclusive lock that does not wait for the shared holders.
can_lock_ignores_readers(l) == l.exclusive = {}

\* An exclusive lock that does not wait for another exclusive holder.
can_lock_ignores_writer(l) == l.shared = {}

\* A shared lock that does not wait for the exclusive holder.
can_lock_shared_ignores_writer(l) == TRUE

\* A shared lock that waits for the other shared holders too.
can_lock_shared_alone(l) == l.exclusive = {} /\ l.shared = {}

\* A unique_lock that is never released.
unlock_never(l, t) == l

\* std::unique_lock lock(mutex) returns once nobody holds the mutex.
can_lock(l) == l.exclusive = {} /\ l.shared = {}

\* std::shared_lock lock(mutex) returns once nobody holds it exclusively.
can_lock_shared(l) == l.exclusive = {}

\* ~unique_lock / ~shared_lock at the end of the wrapper's scope.
unlock(l, t) == [l EXCEPT !.exclusive = @ \ {t}]
unlock_shared(l, t) == [l EXCEPT !.shared = @ \ {t}]

\* ------------------------------------------------------------- ConcurrentRedBlackTree::put
\* A thread calls put(key, value) and reaches the unique_lock.
CallPut(t, k, v) ==
    /\ pc[t] = "idle"
    /\ calls[t] < MaxCalls
    /\ calls' = [calls EXCEPT ![t] = @ + 1]
    /\ frame' = [frame EXCEPT ![t] = [op |-> "put", key |-> k, value |-> v]]
    /\ pc' = [pc EXCEPT ![t] = "put_wait"]
    /\ UNCHANGED <<tree, last, everPut, lock, order, verified>>

\* The unique_lock is taken.
LockExclusive(t) ==
    /\ pc[t] = "put_wait"
    /\ can_lock(lock)
    /\ lock' = [lock EXCEPT !.exclusive = @ \cup {t}]
    /\ order' = Append(order, [key |-> frame[t].key, value |-> frame[t].value,
                                thread |-> t])
    /\ everPut' = everPut \cup {frame[t].key}
    /\ pc' = [pc EXCEPT ![t] = "put"]
    /\ UNCHANGED <<tree, last, frame, calls, verified>>

\* tree.put down to the end of its descent.
PutDescend(t) ==
    /\ pc[t] = "put"
    /\ LET d == put_descend(tree, frame[t].key, frame[t].value)
       IN /\ tree' = d.t
          /\ IF d.done
             THEN /\ pc' = [pc EXCEPT ![t] = "put_ret"]
                  /\ UNCHANGED frame
             ELSE /\ pc' = [pc EXCEPT ![t] = "link"]
                  /\ frame' = [frame EXCEPT ![t] =
                               [op |-> "put", key |-> frame[t].key,
                                value |-> frame[t].value, parent |-> d.parent]]
    /\ UNCHANGED <<last, everPut, lock, calls, order, verified>>

\* The new node allocated and linked; fix_insert is entered.
PutLink(t) ==
    /\ pc[t] = "link"
    /\ LET l == put_link(tree, frame[t].parent, frame[t].key, frame[t].value)
       IN /\ tree' = l.t
          /\ frame' = [frame EXCEPT ![t] =
                       [op |-> "put", key |-> frame[t].key,
                        value |-> frame[t].value, node |-> l.fix]]
    /\ pc' = [pc EXCEPT ![t] = "fix"]
    /\ UNCHANGED <<last, everPut, lock, calls, order, verified>>

\* The frame of a thread inside a rotation: the rotation's second half is
\* still to run, then control goes to `cont`.
InRotation(f, node, fn, x, child, cont) ==
    [op |-> "put", key |-> f.key, value |-> f.value, node |-> node,
     fn |-> fn, x |-> x, child |-> child, cont |-> cont]

AtNode(f, node) ==
    [op |-> "put", key |-> f.key, value |-> f.value, node |-> node]

\* One test of fix_insert's loop and the branch it takes: the exit (root
\* forced BLACK), the red-uncle recolouring, the inner grandchild's
\* rotation begun, or the outer grandchild's recolouring.
FixTest(t) ==
    /\ pc[t] = "fix"
    /\ LET node == frame[t].node
           c == fix_case(tree, node)
           p == tree.nodes[node].parent
       IN CASE c = "exit" ->
                 /\ tree' = blacken_root(tree)
                 /\ pc' = [pc EXCEPT ![t] = "put_ret"]
                 /\ UNCHANGED frame
            [] c \in {"left_red", "right_red"} ->
                 LET g == Grandparent(tree, node)
                     uncle == IF c = "left_red" THEN tree.nodes[g].right
                              ELSE tree.nodes[g].left
                 IN /\ tree' = recolour_uncle(tree, node, uncle)
                    /\ frame' = [frame EXCEPT ![t] = AtNode(frame[t], g)]
                    /\ UNCHANGED pc
            [] c = "left_inner" ->
                 /\ tree' = rotate_left_first(tree, p)
                 /\ frame' = [frame EXCEPT ![t] =
                      InRotation(frame[t], p, "left", p, tree.nodes[p].right, "outer")]
                 /\ pc' = [pc EXCEPT ![t] = "rot"]
            [] c = "right_inner" ->
                 /\ tree' = rotate_right_first(tree, p)
                 /\ frame' = [frame EXCEPT ![t] =
                      InRotation(frame[t], p, "right", p, tree.nodes[p].left, "outer")]
                 /\ pc' = [pc EXCEPT ![t] = "rot"]
            [] c \in {"left_outer", "right_outer"} ->
                 /\ tree' = recolour_outer(tree, node)
                 /\ pc' = [pc EXCEPT ![t] = "outer_rot"]
                 /\ UNCHANGED frame
    /\ UNCHANGED <<last, everPut, lock, calls, order, verified>>

\* The second half of the rotation in progress.
RotateFinish(t) ==
    /\ pc[t] = "rot"
    /\ LET f == frame[t]
       IN /\ tree' = IF f.fn = "left"
                     THEN rotate_left_second(tree, f.x, f.child)
                     ELSE rotate_right_second(tree, f.x, f.child)
          /\ pc' = [pc EXCEPT ![t] = f.cont]
          /\ frame' = [frame EXCEPT ![t] = AtNode(f, f.node)]
    /\ UNCHANGED <<last, everPut, lock, calls, order, verified>>

\* After the inner grandchild's rotation: parent BLACK, grandparent RED.
OuterRecolour(t) ==
    /\ pc[t] = "outer"
    /\ tree' = recolour_outer(tree, frame[t].node)
    /\ pc' = [pc EXCEPT ![t] = "outer_rot"]
    /\ UNCHANGED <<last, everPut, lock, frame, calls, order, verified>>

\* The grandparent's rotation begun: to the right when the parent is its
\* left child, to the left otherwise.
OuterRotate(t) ==
    /\ pc[t] = "outer_rot"
    /\ LET node == frame[t].node
           p == tree.nodes[node].parent
           g == tree.nodes[p].parent
       IN IF p = tree.nodes[g].left
          THEN /\ tree' = rotate_right_first(tree, g)
               /\ frame' = [frame EXCEPT ![t] =
                    InRotation(frame[t], node, "right", g, tree.nodes[g].left, "fix")]
          ELSE /\ tree' = rotate_left_first(tree, g)
               /\ frame' = [frame EXCEPT ![t] =
                    InRotation(frame[t], node, "left", g, tree.nodes[g].right, "fix")]
    /\ pc' = [pc EXCEPT ![t] = "rot"]
    /\ UNCHANGED <<last, everPut, lock, calls, order, verified>>

\* put returns: the unique_lock goes out of scope.
UnlockExclusive(t) ==
    /\ pc[t] = "put_ret"
    /\ lock' = unlock(lock, t)
    /\ pc' = [pc EXCEPT ![t] = "idle"]
    /\ frame' = [frame EXCEPT ![t] = NoFrame]
    /\ UNCHANGED <<tree, last, everPut, calls, order, verified>>

\* ------------------------------------------------------------- ConcurrentRedBlackTree::get
CallGet(t, k) ==
    /\ pc[t] = "idle"
    /\ calls[t] < MaxCalls
    /\ calls' = [calls EXCEPT ![t] = @ + 1]
    /\ frame' = [frame EXCEPT ![t] = [op |-> "get", key |-> k]]
    /\ pc' = [pc EXCEPT ![t] = "get_wait"]
    /\ UNCHANGED <<tree, last, everPut, lock, order, verified>>

\* The shared_lock is taken; find_node starts at the root.
LockShared(t) ==
    /\ pc[t] = "get_wait"
    /\ can_lock_shared(lock)
    /\ lock' = [lock EXCEPT !.shared = @ \cup {t}]
    /\ frame' = [frame EXCEPT ![t] =
                 [op |-> "get", key |-> frame[t].key, node |-> tree.root]]
    /\ pc' = [pc EXCEPT ![t] = "get"]
    /\ UNCHANGED <<tree, last, everPut, calls, order, verified>>

\* One pass of find_node's loop; at its end get's result.
FindStep(t) ==
    /\ pc[t] = "get"
    /\ LET f == frame[t]
           node == f.node
       IN IF node = NIL
          THEN /\ frame' = [frame EXCEPT ![t] =
                     [op |-> "get", key |-> f.key,
                      result |-> [found |-> FALSE, value |-> << >>]]]
               /\ pc' = [pc EXCEPT ![t] = "get_ret"]
          ELSE LET cmp == compare_keys(f.key, tree.nodes[node].key)
               IN IF cmp = 0
                  THEN /\ frame' = [frame EXCEPT ![t] =
                             [op |-> "get", key |-> f.key,
                              result |-> [found |-> TRUE,
                                          value |-> tree.nodes[node].value]]]
                       /\ pc' = [pc EXCEPT ![t] = "get_ret"]
                  ELSE /\ frame' = [frame EXCEPT ![t] =
                             [op |-> "get", key |-> f.key,
                              node |-> IF cmp < 0 THEN tree.nodes[node].left
                                       ELSE tree.nodes[node].right]]
                       /\ UNCHANGED pc
    /\ UNCHANGED <<tree, last, everPut, lock, calls, order, verified>>

\* get returns: the shared_lock goes out of scope.
UnlockShared(t) ==
    /\ pc[t] = "get_ret"
    /\ lock' = unlock_shared(lock, t)
    /\ pc' = [pc EXCEPT ![t] = "idle"]
    /\ frame' = [frame EXCEPT ![t] = NoFrame]
    /\ UNCHANGED <<tree, last, everPut, calls, order, verified>>

\* What a thread does between a call of put and its return.
PutProgress(t) ==
    \/ LockExclusive(t)
    \/ PutDescend(t)
    \/ PutLink(t)
    \/ FixTest(t)
    \/ RotateFinish(t)
    \/ OuterRecolour(t)
    \/ OuterRotate(t)
    \/ UnlockExclusive(t)

\* What a thread does between a call of get and its return.
GetProgress(t) ==
    \/ LockShared(t)
    \/ FindStep(t)
    \/ UnlockShared(t)

Progress(t) == PutProgress(t) \/ GetProgress(t)

\* The value thread t gives its i-th put (test_mixed_read_write's writers).
MixedValue(t, i) == <<t % 256, i % 256>>

NextConc ==
    \/ \E t \in Threads, k \in ConcKeys : CallPut(t, k, MixedValue(t, calls[t]))
    \/ \E t \in Threads, k \in ConcKeys : CallGet(t, k)
    \/ \E t \in Threads : Progress(t)

SpecConc == Init /\ [][NextConc]_vars

\* The scheduler runs every thread that can take a step, and a lock that
\* stays free is granted to a thread waiting for it.
SpecConcFair == SpecConc /\ \A t \in Threads : WF_vars(Progress(t))

\* ------------------------------------------------------------- test_concurrent_writes
\* Thread t's i-th key and value.
WriteKey(t, i) == <<t % 256, (i \div 256) % 256, i % 256>>
WriteValue(t, i) == <<(t * 100 + i) % 256>>

\* The next put of thread t's loop.
CallWrite(t) ==
    /\ pc[t] = "idle"
    /\ calls[t] < OpsPerThread
    /\ frame' = [frame EXCEPT ![t] = [op |-> "put", key |-> WriteKey(t, calls[t]),
                                       value |-> WriteValue(t, calls[t])]]
    /\ calls' = [calls EXCEPT ![t] = @ + 1]
    /\ pc' = [pc EXCEPT ![t] = "put_wait"]
    /\ UNCHANGED <<tree, last, everPut, lock, order, verified>>

\* Every thread has been joined.
Joined == \A t \in Writers : pc[t] = "idle" /\ calls[t] = OpsPerThread

\* One pass of the verification loop, on the main thread: get of the next
\* key through the wrapper, and the assert on its result.
Verify ==
    /\ Joined
    /\ verified >= 0
    /\ verified < NumThreads * OpsPerThread
    /\ can_lock_shared(lock)
    /\ LET t == verified \div OpsPerThread
           i == verified % OpsPerThread
       IN verified' = IF get(tree, WriteKey(t, i)).found THEN verified + 1 ELSE -1
    /\ UNCHANGED <<tree, last, everPut, lock, pc, frame, calls, order>>

NextWrites ==
    \/ \E t \in Writers : CallWrite(t)
    \/ \E t \in Writers : PutProgress(t)
    \/ Verify

SpecWrites == InitWith(Writers) /\ [][NextWrites]_vars

\* ------------------------------------------------------------- test_concurrent_reads
\* The i-th key put before the readers start, and its value.
ReadKey(i) == <<(i \div 256) % 256, i % 256>>
ReadValue(i) == <<i % 256>>

\* The index of the key thread t asks for in its i-th get.
ReadIndex(t, i) == (t * 7919 + i * 31) % NumKeys

\* The main thread's next put of the pre-population loop, through the
\* wrapper, before any reader thread exists.
Populate ==
    /\ Len(order) < NumKeys
    /\ LET i == Len(order)
       IN /\ tree' = put(tree, ReadKey(i), ReadValue(i))
          /\ order' = Append(order, [key |-> ReadKey(i), value |-> ReadValue(i),
                                      thread |-> NumReaders])
          /\ everPut' = everPut \cup {ReadKey(i)}
    /\ UNCHANGED <<last, lock, pc, frame, calls, verified>>

\* The reader threads are started once the tree is populated.
Populated == Len(order) = NumKeys

\* The next get of reader t's loop.
CallRead(t) ==
    /\ Populated
    /\ pc[t] = "idle"
    /\ calls[t] < ReadsPerThread
    /\ frame' = [frame EXCEPT ![t] =
                 [op |-> "get", key |-> ReadKey(ReadIndex(t, calls[t]))]]
    /\ calls' = [calls EXCEPT ![t] = @ + 1]
    /\ pc' = [pc EXCEPT ![t] = "get_wait"]
    /\ UNCHANGED <<tree, last, everPut, lock, order, verified>>

NextReads ==
    \/ Populate
    \/ \E t \in Readers : CallRead(t)
    \/ \E t \in Readers : GetProgress(t)

SpecReads == InitWith(Readers) /\ [][NextReads]_vars

\* ------------------------------------------------------------- tree shape
AllNodes(t) == 1 .. Len(t.nodes)

\* The nodes under x in order, left subtree first; the descent stops after
\* `fuel` levels, deeper than any tree of the arena's nodes.
RECURSIVE InOrder(_, _, _)
InOrder(t, x, fuel) ==
    IF x = NIL \/ fuel = 0 THEN << >>
    ELSE InOrder(t, t.nodes[x].left, fuel - 1) \o <<x>>
         \o InOrder(t, t.nodes[x].right, fuel - 1)

Walk(t) == InOrder(t, t.root, Len(t.nodes) + 1)
Under(t, x) == LET w == InOrder(t, x, Len(t.nodes) + 1)
               IN { w[i] : i \in 1 .. Len(w) }

\* Every node is met once by the traversal from the root.
EachNodeOnce(t) ==
    LET w == Walk(t)
    IN /\ Len(w) = Len(t.nodes)
       /\ \A i, j \in 1 .. Len(w) : w[i] = w[j] => i = j

StrictlyIncreasing(t) ==
    LET w == Walk(t)
    IN \A i \in 1 .. Len(w) - 1 :
          compare_keys(t.nodes[w[i]].key, t.nodes[w[i + 1]].key) < 0

SubtreesOrdered(t) ==
    \A x \in AllNodes(t) :
       /\ \A y \in Under(t, t.nodes[x].left) :
             compare_keys(t.nodes[y].key, t.nodes[x].key) < 0
       /\ \A y \in Under(t, t.nodes[x].right) :
             compare_keys(t.nodes[y].key, t.nodes[x].key) > 0

BstOrdered(t) == EachNodeOnce(t) /\ StrictlyIncreasing(t) /\ SubtreesOrdered(t)

RootBlack(t) == t.root # NIL => ~t.nodes[t.root].is_red

IsRed(t, x) == x # NIL /\ t.nodes[x].is_red

NoRedRed(t) ==
    \A x \in AllNodes(t) :
       t.nodes[x].is_red => ~IsRed(t, t.nodes[x].left) /\ ~IsRed(t, t.nodes[x].right)

\* The numbers of BLACK nodes on the paths from x down to an absent child.
RECURSIVE BlackCounts(_, _, _)
BlackCounts(t, x, fuel) ==
    IF x = NIL THEN {0}
    ELSE IF fuel = 0 THEN {-1}
    ELSE LET below == BlackCounts(t, t.nodes[x].left, fuel - 1)
                      \cup BlackCounts(t, t.nodes[x].right, fuel - 1)
         IN { c + (IF t.nodes[x].is_red THEN 0 ELSE 1) : c \in below }

EqualBlackCount(t) ==
    Cardinality(BlackCounts(t, t.root, Len(t.nodes) + 1)) = 1

RedBlack(t) == RootBlack(t) /\ NoRedRed(t) /\ EqualBlackCount(t)

\* ------------------------------------------------------------- claims
\* C1 (round trip): after put(k, v) returns, get(k) returns found = true
\* with value v, whether k was absent or present before the call.
C1_RoundTrip ==
    last.op = "put" => get(tree, last.key) = [found |-> TRUE, value |-> last.value]

\* A put of an absent key into a tree of three nodes or more.
C1_Witness ==
    /\ last.op = "put"
    /\ ~last.before.found
    /\ last.count >= 3
    /\ get(tree, last.key).found

\* C2 (red-black invariants): after any sequence of completed puts the root
\* is BLACK, no RED node has a RED child, and every path from the root to an
\* absent child passes through the same number of BLACK nodes.
C2_RedBlack == RedBlack(tree)

\* A put whose fixup recoloured under a RED uncle and then rotated higher up.
C2_Witness ==
    /\ last.op = "put"
    /\ Len(last.run) >= 3
    /\ last.run[1].case \in {"left_red", "right_red"}
    /\ last.run[2].case \notin {"left_red", "right_red"}
    /\ RedBlack(tree)

\* C3 (BST ordering): after any sequence of completed puts the in-order
\* traversal yields strictly increasing keys without duplicates, every
\* node's left subtree holds smaller keys and its right subtree greater
\* ones, and there are as many nodes as distinct keys ever put.
C3_BstOrder ==
    /\ BstOrdered(tree)
    /\ Len(tree.nodes) = Cardinality(everPut)
    /\ { tree.nodes[x].key : x \in AllNodes(tree) } = everPut

\* Every key put, after rotations that moved the root.
C3_Witness ==
    /\ everPut = DeepKeys
    /\ Len(tree.nodes) = Cardinality(DeepKeys)
    /\ tree.root # 1
    /\ StrictlyIncreasing(tree)

\* C4 (overwrite): a put of a key that was put before leaves get(k) equal
\* to (true, the new value) and the number of nodes unchanged.
C4_Overwrite ==
    (last.op = "put" /\ last.was_put) =>
        /\ get(tree, last.key) = [found |-> TRUE, value |-> last.value]
        /\ Len(tree.nodes) = last.count
        /\ Len(Walk(tree)) = last.count

\* put(k, v2) on a tree where k holds another value v1.
C4_Witness ==
    /\ last.op = "put"
    /\ last.was_put
    /\ last.before.found
    /\ last.before.value # last.value
    /\ last.count >= 3

\* C5 (miss): get(k) for a key never passed to put returns found = false,
\* on the empty tree too.
C5_Miss ==
    /\ \A k \in Keys \ everPut : ~get(tree, k).found
    /\ (last.op = "get" /\ ~last.was_put) => ~last.result.found

\* A get of a key never put, on a tree of three nodes or more.
C5_Witness ==
    /\ last.op = "get"
    /\ ~last.was_put
    /\ ~last.result.found
    /\ Len(tree.nodes) >= 3

\* ------------------------------------------------------------- the wrapper's claims
\* Thread t is inside put's critical section: between taking the
\* unique_lock and releasing it.
InPut(t) == pc[t] \in {"put", "link", "fix", "rot", "outer", "outer_rot", "put_ret"}

\* Thread t is inside get's critical section.
InGet(t) == pc[t] \in {"get", "get_ret"}

NoWriter == \A t \in DOMAIN pc : ~InPut(t)

\* Child and parent links agree, and the root is the one node without parent.
ParentLinks(t) ==
    /\ t.root # NIL => t.nodes[t.root].parent = NIL
    /\ t.root = NIL => Len(t.nodes) = 0
    /\ \A x \in AllNodes(t) :
          /\ t.nodes[x].left # NIL => t.nodes[t.nodes[x].left].parent = x
          /\ t.nodes[x].right # NIL => t.nodes[t.nodes[x].right].parent = x
          /\ t.nodes[x].parent = NIL => x = t.root

TreeOK(t) == BstOrdered(t) /\ ParentLinks(t) /\ RedBlack(t)

\* The RedBlackTree after the puts of o, each run whole, one after another.
RECURSIVE Replay(_)
Replay(o) ==
    IF o = << >> THEN EmptyTree
    ELSE LET n == Len(o)
         IN put(Replay(SubSeq(o, 1, n - 1)), o[n].key, o[n].value)

\* The puts of key k among those of `order`, in that order.
PutsOf(k) == SelectSeq(order, LAMBDA e : e.key = k)

\* The value of the last put of k to take the lock, if there is one.
Lookup(k) ==
    LET h == PutsOf(k)
    IN IF Len(h) > 0 THEN [found |-> TRUE, value |-> h[Len(h)].value]
       ELSE [found |-> FALSE, value |-> << >>]

\* The puts of test_concurrent_writes that have linked their node.
Linked ==
    { <<t, i>> \in Writers \X (0 .. OpsPerThread - 1) :
         i < calls[t] /\ (i = calls[t] - 1 => pc[t] \notin {"put_wait", "put", "link"}) }

\* C6 (concurrent write integrity): once the threads of
\* test_concurrent_writes have finished, every key is retrieved with the
\* value put for it, the assert never fails, and the tree holds exactly
\* NumThreads * OpsPerThread entries; on the way there no entry is lost:
\* outside a rotation the tree holds one entry for each put so far.
C6_WriteIntegrity ==
    /\ verified # -1
    /\ (\A t \in Writers : pc[t] # "rot") =>
         /\ Len(tree.nodes) = Cardinality(Linked)
         /\ Len(Walk(tree)) = Cardinality(Linked)
    /\ Joined =>
         /\ \A t \in Writers, i \in 0 .. OpsPerThread - 1 :
               get(tree, WriteKey(t, i)) = [found |-> TRUE, value |-> WriteValue(t, i)]
         /\ Len(tree.nodes) = NumThreads * OpsPerThread
         /\ Len(Walk(tree)) = NumThreads * OpsPerThread

\* All keys verified after a run in which the last thread's put came first.
C6_Witness ==
    /\ Joined
    /\ verified = NumThreads * OpsPerThread
    /\ tree.nodes[1].key = WriteKey(NumThreads - 1, 0)
    /\ tree.nodes[2].key = WriteKey(0, 0)

\* C7 (writer exclusion): at most one thread is inside put's critical
\* section, and while one is, no thread is inside get's.
C7_WriterExclusion ==
    \A t, u \in Threads :
       /\ (InPut(t) /\ InPut(u)) => t = u
       /\ InPut(t) => ~InGet(u)

\* A writer in the middle of a rotation while another thread waits for the lock.
C7_Witness ==
    \E t, u \in Threads : pc[t] = "rot" /\ pc[u] \in {"put_wait", "get_wait"}

\* C8 (no torn state): whenever no thread is inside put's critical section,
\* and at every step of a get, the tree satisfies BST ordering, parent-link
\* consistency and the red-black invariants.
C8_NoTornState ==
    (NoWriter \/ \E t \in Threads : InGet(t)) => TreeOK(tree)

\* A tree that breaks the invariants under a writer, a reader waiting.
C8_Witness ==
    \E t, u \in Threads : InPut(t) /\ pc[u] = "get_wait" /\ ~TreeOK(tree)

\* C9 (linearizability): a get returns what the sequential tree gives after
\* the puts that took the lock before it, and with no put in progress the
\* tree is the sequential tree of the puts in lock order, each key holding
\* the value of the last put of it to take the lock.
C9_Linearizable ==
    /\ \A t \in Threads :
          pc[t] = "get_ret" =>
             /\ frame[t].result = get(Replay(order), frame[t].key)
             /\ frame[t].result = Lookup(frame[t].key)
    /\ NoWriter =>
          /\ tree = Replay(order)
          /\ \A k \in ConcKeys : get(tree, k) = Lookup(k)

\* Both threads have put the same key, thread 0 last, and a get returned
\* thread 0's value.
C9_Witness ==
    \E t \in Threads :
       /\ pc[t] = "get_ret"
       /\ LET h == PutsOf(frame[t].key)
          IN /\ Len(h) >= 2
             /\ h[Len(h)].thread = 0
             /\ h[Len(h) - 1].thread = 1
             /\ frame[t].result = [found |-> TRUE, value |-> h[Len(h)].value]

LockFree == lock.exclusive = {} /\ lock.shared = {}

\* A call blocks at its lock only: past it the thread can always step, a
\* call waiting at a free lock can take it, and some thread can step as long
\* as a call is open.
NeverStuck ==
    /\ \A t \in Threads :
          /\ (InPut(t) \/ InGet(t)) => ENABLED Progress(t)
          /\ (pc[t] \in {"put_wait", "get_wait"} /\ LockFree) => ENABLED Progress(t)
    /\ (\E t \in Threads : pc[t] # "idle") => \E t \in Threads : ENABLED Progress(t)

\* C10 (lock progress): under fair scheduling every call of put and of get
\* takes the lock and returns, no state is deadlocked, and the lock is free
\* once every call has returned.
C10_LockProgress ==
    /\ \A t \in Threads : (pc[t] # "idle") ~> (pc[t] = "idle")
    /\ [](NeverStuck)
    /\ []((\A t \in Threads : pc[t] = "idle") => LockFree)

\* A put waiting for the lock while the other thread holds it.
C10_Witness ==
    \E t, u \in Threads : pc[t] = "put_wait" /\ (InPut(u) \/ InGet(u))

\* No thread holds the unique_lock or waits for it.
NoPut == \A t \in DOMAIN pc : ~InPut(t) /\ pc[t] # "put_wait"

\* C11 (reader parallelism): a get is never blocked by another get: with no
\* writer holding or acquiring the lock, a thread requesting the shared lock
\* can take it at once, whoever holds it shared, a thread inside get can
\* always take its next step, and the holders of the shared lock are the
\* threads inside get.
C11_ReaderParallelism ==
    /\ lock.shared = { t \in Threads : InGet(t) }
    /\ NoPut =>
          \A t \in Threads :
             /\ pc[t] = "get_wait" => ENABLED LockShared(t)
             /\ InGet(t) => ENABLED GetProgress(t)

\* Two threads inside get at once, both in find_node's loop.
C11_Witness ==
    /\ NoPut
    /\ \E t, u \in Threads :
          t # u /\ pc[t] = "get" /\ pc[u] = "get" /\ {t, u} \subseteq lock.shared

\* C12 (concurrent read safety): get is a pure read: once the tree of
\* test_concurrent_reads is populated no step of any reader changes a key,
\* a value, a colour, a link or the root, so the tree stays the one the
\* puts built; and a get that reports found returns the value of the node
\* holding exactly the requested key, the value put for that key.
C12_ReadSafety ==
    /\ [][Populated => tree' = tree]_vars
    /\ [](Populated => tree = Replay(order))
    /\ [](\A t \in Readers :
            (pc[t] = "get_ret" /\ frame[t].result.found) =>
               /\ \E x \in AllNodes(tree) :
                     /\ tree.nodes[x].key = frame[t].key
                     /\ tree.nodes[x].value = frame[t].result.value
               /\ frame[t].result = Lookup(frame[t].key))

\* One reader has found its key while another is below the root in
\* find_node's loop.
C12_Witness ==
    \E t, u \in Readers :
       /\ t # u
       /\ pc[t] = "get_ret" /\ frame[t].result.found
       /\ pc[u] = "get" /\ frame[u].node \notin {NIL, tree.root}

\* The first index at which a and b differ within the shorter one, 0 if none.
FirstDiff(a, b) ==
    LET D == { i \in 1 .. Len(a) : i <= Len(b) /\ a[i] # b[i] }
    IN IF D = {} THEN 0 ELSE CHOOSE i \in D : \A j \in D : i <= j

\* a is b cut short: b starts with a and is longer.
ProperPrefix(a, b) == Len(a) < Len(b) /\ SubSeq(b, 1, Len(a)) = a

\* C13 (compare_keys is a total order): the result is -1, 0 or 1; it is 0
\* exactly for sequences of equal length and content; swapping the
\* arguments negates it; the relation is transitive; the first differing
\* byte, compared as a value in 0..255, decides; and a proper prefix, the
\* empty sequence included, is LESS than the sequence it prefixes.
C13_TotalOrder ==
    last.op = "compare_keys" =>
       LET a == last.a
           b == last.b
           c == last.c
           d == FirstDiff(a, b)
       IN /\ last.ab \in {-1, 0, 1}
          /\ last.ab = 0 <=> a = b
          /\ last.ab = -last.ba /\ last.bc = -last.cb /\ last.ac = -last.ca
          /\ (last.ab <= 0 /\ last.bc <= 0) => last.ac <= 0
          /\ (last.ab < 0 /\ last.bc <= 0) => last.ac < 0
          /\ (last.ab <= 0 /\ last.bc < 0) => last.ac < 0
          /\ d # 0 => last.ab = (IF a[d] < b[d] THEN -1 ELSE 1)
          /\ d = 0 => last.ab = (IF Len(a) < Len(b) THEN -1
                                 ELSE IF Len(a) > Len(b) THEN 1 ELSE 0)
          /\ ProperPrefix(a, b) => last.ab = -1 /\ last.ba = 1

\* The empty sequence against a longer one that a byte above 127 in its
\* last place puts after a third.
C13_Witness ==
    /\ last.op = "compare_keys"
    /\ last.a = << >>
    /\ Len(last.b) = MaxKeyLen /\ Len(last.c) = MaxKeyLen
    /\ FirstDiff(last.b, last.c) = MaxKeyLen
    /\ last.b[MaxKeyLen] = 128 /\ last.c[MaxKeyLen] = 0
    /\ last.ab = -1 /\ last.bc = 1 /\ last.ac = -1

\* The keys of the nodes met from the root.
KeysIn(t) == LET w == Walk(t) IN { t.nodes[w[i]].key : i \in 1 .. Len(w) }

\* C14 (persistence of keys): no put and no get removes an entry: every key
\* some put has completed with is found in every later state, and no step
\* lowers the number of nodes or takes a key out of the tree.
C14_Persistence ==
    /\ [](\A k \in everPut : get(tree, k).found)
    /\ [][/\ Len(tree'.nodes) >= Len(tree.nodes)
          /\ Len(Walk(tree')) >= Len(Walk(tree))
          /\ KeysIn(tree) \subseteq KeysIn(tree')]_vars

\* A get finds a key put earlier, in a tree of MaxNodes nodes whose first
\* node is no longer the root.
C14_Witness ==
    /\ last.op = "get"
    /\ last.was_put
    /\ last.result.found
    /\ Len(tree.nodes) = MaxNodes
    /\ tree.root # 1
    /\ last.key = tree.nodes[1].key

\* The nodes without a parent.
Parentless(t) == { x \in AllNodes(t) : t.nodes[x].parent = NIL }

\* The passes fix_insert made in the last put.
Passes == 1 .. Len(last.run) - 1

\* C15 (parent-link consistency): after every completed put, and after each
\* rotation made inside it, the parent field of every left and right child
\* names the node it hangs under; the root is the one node without a
\* parent; and the traversal from the root meets every node once, so there
\* is no cycle and no orphan.
C15_ParentLinks ==
    /\ ParentLinks(tree)
    /\ Parentless(tree) = (IF tree.root = NIL THEN {} ELSE {tree.root})
    /\ EachNodeOnce(tree)
    /\ last.op = "put" => \A i \in Passes : last.run[i].linked

\* The put of the last of DeepKeys made two rotations, and the first node
\* is no longer the root.
C15_Witness ==
    /\ last.op = "put"
    /\ Passes # {}
    /\ last.run[Len(last.run) - 1].case \in {"left_inner", "right_inner"}
    /\ last.run[Len(last.run) - 1].linked
    /\ Len(tree.nodes) = Cardinality(DeepKeys)
    /\ tree.root # 1
    /\ ParentLinks(tree)

\* C17 (fixup never dereferences an absent node): no put goes through
\* nullptr: in each pass of fix_insert's loop the grandparent exists, each
\* rotate_left is made on a node with a right child and each rotate_right on
\* a node with a left child, and the root exists when it is forced BLACK.
C17_NoNullDeref ==
    last.op = "put" => Outcome(last.run) # "null_deref"

\* A put whose loop recoloured under a RED uncle, climbed to the
\* grandparent and made both rotations there.
C17_Witness ==
    /\ last.op = "put"
    /\ Outcome(last.run) = "returned"
    /\ Len(last.run) = 3
    /\ last.run[1].case \in {"left_red", "right_red"}
    /\ last.run[2].case \in {"left_inner", "right_inner"}

\* The rotations of the first n passes of the last put.
RECURSIVE Rotations(_)
Rotations(n) ==
    IF n = 0 THEN 0 ELSE rotations_in(last.run[n].case) + Rotations(n - 1)

\* C18 (fixup termination): every put returns, its loop having made no more
\* passes than half the nodes of the tree; a pass that rotates is the last
\* one, so that a put makes two rotations at most; and a red-uncle pass
\* changes colours only, no link.
C18_FixTerminates ==
    last.op = "put" =>
       /\ Outcome(last.run) = "returned"
       /\ 2 * Cardinality(Passes) <= Len(tree.nodes)
       /\ \A i \in Passes : i < Len(last.run) - 1 => rotations_in(last.run[i].case) = 0
       /\ Rotations(Len(last.run) - 1) <= 2
       /\ \A i \in Passes :
             last.run[i].relinked <=> rotations_in(last.run[i].case) > 0

\* A put that recoloured under a RED uncle and then made the outer step's
\* single rotation.
C18_Witness ==
    /\ last.op = "put"
    /\ Len(last.run) = 3
    /\ last.run[1].case \in {"left_red", "right_red"}
    /\ ~last.run[1].relinked
    /\ last.run[2].case \in {"left_outer", "right_outer"}
    /\ last.run[2].relinked

\* C16 (overwrite changes nothing but one value): a put whose key is present
\* leaves the tree as it was but for the value of the node holding the key:
\* the root, every link, every colour, and every other node's key and value
\* are those of before, and no node is added.
C16_OverwriteFrame ==
    [][(last'.op = "put" /\ last'.before.found) =>
          LET x == find_node(tree, tree.root, last'.key)
          IN /\ x # NIL
             /\ tree' = [tree EXCEPT !.nodes[x].value = last'.value]]_vars

\* A new value was put under the key of a BLACK node below the root, in a
\* tree of MaxNodes nodes.
C16_Witness ==
    /\ last.op = "put"
    /\ last.before.found
    /\ last.before.value # last.value
    /\ Len(tree.nodes) = MaxNodes
    /\ LET x == find_node(tree, tree.root, last.key)
       IN /\ x # tree.root
          /\ ~tree.nodes[x].is_red
          /\ tree.nodes[x].value = last.value

\* C20 (put does not disturb other entries): across put(k, v) the result of
\* get is the same for every key other than k; a put of an absent key adds
\* one node, which the traversal from the root meets; and no node's key
\* changes, nor the value of any node holding another key, whatever the
\* rotations and recolouring.
C20_PutFrame ==
    [][last'.op = "put" =>
          /\ \A k \in Keys \ {last'.key} : get(tree', k) = get(tree, k)
          /\ ~last'.before.found =>
                /\ Len(tree'.nodes) = Len(tree.nodes) + 1
                /\ Len(Walk(tree')) = Len(Walk(tree)) + 1
          /\ \A x \in AllNodes(tree) :
                /\ tree'.nodes[x].key = tree.nodes[x].key
                /\ tree.nodes[x].key # last'.key =>
                      tree'.nodes[x].value = tree.nodes[x].value]_vars

\* The third key put went between the other two and both rotations made it
\* the root; the other two are found with their values.
C20_Witness ==
    /\ last.op = "put"
    /\ ~last.before.found
    /\ last.count = 2
    /\ tree.root = 3
    /\ tree.nodes[3].key = last.key
    /\ \A x \in {1, 2} : get(tree, tree.nodes[x].key) =
                             [found |-> TRUE, value |-> tree.nodes[x].value]

\* The number of nodes on the longest path from x down.
RECURSIVE Height(_, _, _)
Height(t, x, fuel) ==
    IF x = NIL \/ fuel = 0 THEN 0
    ELSE LET l == Height(t, t.nodes[x].left, fuel - 1)
             r == Height(t, t.nodes[x].right, fuel - 1)
         IN 1 + (IF l > r THEN l ELSE r)

\* The steps delete_tree takes on n nodes: three in each node's call, one in
\* each of the n + 1 calls on nullptr.
TeardownSteps(n) == 4 * n + 1

\* C19 (teardown): destroying a tree built by any sequence of puts deletes
\* each node once, both subtrees of a node before the node, reads no field
\* of a node already deleted, never has more calls of delete_tree open than
\* the tree's height plus one, and ends, after a number of steps fixed by
\* the number of nodes, with every node deleted.
C19_Teardown ==
    Destroyed =>
       LET d == last
           n == Len(tree.nodes)
           at(x) == CHOOSE i \in 1 .. Len(d.deleted) : d.deleted[i] = x
           done == { d.deleted[i] : i \in 1 .. Len(d.deleted) }
       IN /\ ~d.stale
          /\ Cardinality(done) = Len(d.deleted)
          /\ \A x \in done :
                \A y \in Under(tree, tree.nodes[x].left)
                         \cup Under(tree, tree.nodes[x].right) :
                   y \in done /\ at(y) < at(x)
          /\ Len(d.stack) <= Height(tree, tree.root, n) + 1
          /\ d.steps <= TeardownSteps(n)
          /\ d.stack = << >> <=> d.steps = TeardownSteps(n)
          /\ d.stack # << >> => ENABLED DeleteStep
          /\ d.stack = << >> => done = AllNodes(tree)

\* A tree of MaxNodes nodes whose root is not its first node has been
\* destroyed, the root deleted last.
C19_Witness ==
    /\ Destroyed
    /\ last.stack = << >>
    /\ Len(last.deleted) = MaxNodes
    /\ tree.root # 1
    /\ last.deleted[MaxNodes] = tree.root
    /\ ~last.stale

====
